---- MODULE Spec2Model ----
(***************************************************************************)
(* Ledger wallet service: the funding and transfer operations, the ledger  *)
(* they write, and the idempotency gate in front of them, over a store     *)
(* with PostgreSQL's row locks, unique constraints and SERIALIZABLE        *)
(* snapshots.                                                              *)
(*                                                                         *)
(* One request is one process.  Every action is one awaited storage call   *)
(* together with the synchronous code that follows it up to the next       *)
(* await.                                                                  *)
(***************************************************************************)
EXTENDS Integers, Sequences, FiniteSets, TLC

\* ---------------------------------------------------------------- bounds
NumReq == 3
MaxAmount == 1
MaxTime == 1
MaxInFlight == 2
MaxLimit == 2
MaxValue == 2

Reqs == 1 .. NumReq
Wallets == {1, 2}
Amounts == 1 .. MaxAmount
PaymentRefs == {"p1", "p2"}
NoKey == "none"
IdempotencyKeys == {"k1"}

\* Ids a request can name: the wallets, and a well-formed id of no wallet.
MissingWallet == Cardinality(Wallets) + 1
WalletIds == Wallets \cup {MissingWallet}

\* Every id there is: the wallets and their owners, the id of no wallet, and
\* the fresh one gen_random_uuid() gives request r.
FreshId(r) == MissingWallet + r
Ids == 1 .. FreshId(NumReq)

\* The owners of the wallets, created before the first request, and the
\* emails and names a createUser request can carry: the email of an existing
\* user and a new one; a name and the empty one.
SeedEmail(w) == IF w = 1 THEN "u1@x.io" ELSE "u2@x.io"
UserEmails == {"u1@x.io", "u3@x.io"}
UserNames == {"", "n"}
MaxNameLength == 255
UserBodies == [email : UserEmails, name : UserNames]

\* Amounts a request can carry, zero and a negative one included.
MaxInputAmount == 2
InputAmounts == -1 .. MaxInputAmount

\* Idempotency-Key header values the schema turns down: the empty one and
\* one of MaxKeyLength + 1 characters.
MaxKeyLength == 255
EmptyKey == ""
Key4 == "kkkk"
Key16 == Key4 \o Key4 \o Key4 \o Key4
Key64 == Key16 \o Key16 \o Key16 \o Key16
LongKey == Key64 \o Key64 \o Key64 \o Key64
InvalidKeys == {EmptyKey, LongKey}

\* ------------------------------------------------------------ variables
VARIABLES
    ledger,      \* committed rows of ledger_entries, in insertion order
    transfers,   \* committed rows of transfers
    idem,        \* rows of idempotency_keys, by key
    lockOwner,   \* wallet row -> request holding its FOR UPDATE lock, or 0
    now,         \* the store's clock: NOW(); a key lives ttlHours ticks
    req,         \* request -> its position and locals
    users,       \* committed rows of users
    wallets,     \* committed rows of wallets
    client,      \* a caller of GET /transactions and the pages it was sent
    hashed       \* two request bodies and the fingerprints hashRequest gave them

vars == <<ledger, transfers, idem, lockOwner, now, req, users, wallets, client, hashed>>

\* ------------------------------------------------------ program constants
\* IdempotencyService.ttlHours: parseInt(IDEMPOTENCY_KEY_TTL), in hours; the
\* deployment modelled sets it to 1.
ttlHours == 1

NoRow == [request_hash |-> <<>>, response_status |-> 0,
          response_body |-> <<>>, expires_at |-> 0]
NoResp == [status |-> 0, body |-> [tag |-> "", code |-> "", id |-> 0, state |-> ""]]

\* ---------------------------------------------------------------- store
\* LedgerEntry rows; transfer_id 0 and external_payment_ref "null" are NULL.
\* created_at TIMESTAMP NOT NULL DEFAULT NOW() is the time the inserting
\* transaction started.
LedgerEntry(w, a, d, tref, tid, ref, at) ==
    [wallet_id |-> w, amount |-> a, direction |-> d,
     transaction_reference |-> tref, transfer_id |-> tid,
     external_payment_ref |-> ref, created_at |-> at]

TransferRow(tid, s, rcv, a, st) ==
    [id |-> tid, sender_wallet_id |-> s, receiver_wallet_id |-> rcv,
     amount |-> a, status |-> st]

\* SQL SUM(amount) FILTER (WHERE direction = d) over the rows of wallet w:
\* NULL (the empty set) when no row qualifies, else {sum}.
RECURSIVE SqlSum(_, _, _)
SqlSum(entries, w, d) ==
    IF entries = <<>> THEN {}
    ELSE LET rest == SqlSum(Tail(entries), w, d)
             e == Head(entries)
         IN  IF e.wallet_id = w /\ e.direction = d
             THEN {e.amount + (IF rest = {} THEN 0 ELSE CHOOSE v \in rest : TRUE)}
             ELSE rest

COALESCE(x, dflt) == IF x = {} THEN dflt ELSE CHOOSE v \in x : TRUE

\* The aggregate with the debit side left out.
BalanceQuery_CreditsOnly(entries, w) ==
    COALESCE(SqlSum(entries, w, "credit"), 0)

\* The aggregate both LedgerService.getBalance and TransferService.transfer run.
BalanceQuery(entries, w) ==
    COALESCE(SqlSum(entries, w, "credit"), 0)
      - COALESCE(SqlSum(entries, w, "debit"), 0)

getBalance(w) == BalanceQuery(ledger, w)

\* Every id passes for a wallet.
WalletExists_Always(w) == TRUE

\* SELECT id FROM wallets WHERE id = $1 returns a row.
WalletExists(w) == \E row \in wallets : row.id = w

findEntryByExternalPaymentRef(ref) ==
    {i \in 1 .. Len(ledger) : ledger[i].external_payment_ref = ref}

getEntriesByTransactionReference(tref) ==
    {i \in 1 .. Len(ledger) : ledger[i].transaction_reference = tref}

getTransfer(tid) == {t \in transfers : t.id = tid}

\* The INSERT run twice.
createEntry_Twice(entries, entry) == Append(Append(entries, entry), entry)

\* LedgerService.createEntry: INSERT INTO ledger_entries .. RETURNING *, one row.
createEntry(entries, entry) == Append(entries, entry)

\* ledger_entries and transfers: amount BIGINT NOT NULL CHECK (amount > 0)
AmountCheck(amount) == amount > 0

\* The column without its unique index.
UniqueViolation_None(entries, ref) == FALSE

\* ledger_entries.external_payment_ref UNIQUE: does inserting ref violate it?
UniqueViolation(entries, ref) ==
    \E i \in 1 .. Len(entries) : entries[i].external_payment_ref = ref

\* ------------------------------------------------------------- requests
FundBodies ==
    [walletId : Wallets, amount : Amounts, externalPaymentRef : PaymentRefs]

TransferBodies ==
    {b \in [senderWalletId : Wallets, receiverWalletId : Wallets, amount : Amounts] :
        b.senderWalletId # b.receiverWalletId}

\* Bodies of any wallet id and any amount, a transfer to oneself included,
\* with at most one thing wrong in each.
Faults(S) == Cardinality({i \in 1 .. Len(S) : S[i]})

InputFundBodies ==
    {b \in [walletId : WalletIds, amount : InputAmounts,
            externalPaymentRef : PaymentRefs] :
        Faults(<<b.walletId = MissingWallet, b.amount <= 0>>) <= 1}

InputTransferBodies ==
    {b \in [senderWalletId : WalletIds, receiverWalletId : WalletIds,
            amount : InputAmounts] :
        Faults(<<b.senderWalletId = MissingWallet, b.receiverWalletId = MissingWallet,
                 b.senderWalletId = b.receiverWalletId, b.amount <= 0>>) <= 1}

\* A response body: {transaction: {id, ..}}, {transfer: {id, status, ..}} or
\* {error: code, message}.
Body(tag, code, id, state) == [tag |-> tag, code |-> code, id |-> id, state |-> state]

Idle ==
    [pc |-> "idle", route |-> "", key |-> NoKey, body |-> <<>>,
     snap |-> 0, txTransfers |-> {}, txEntries |-> <<>>, result |-> {},
     txUsers |-> {}, txWallets |-> {},
     startedAt |-> 0, err |-> "", errArg |-> 0, resp |-> NoResp, executed |-> FALSE, before |-> {}]

\* z.coerce.number().int().positive(); the modelled amounts are integers far
\* below the schema's upper limit.
positiveIntegerSchema_Any(n) == n = n

positiveIntegerSchema(n) == n > 0

\* fundWalletSchema; every modelled wallet id and payment reference is
\* well-formed.
fundWalletSchema(body) == positiveIntegerSchema(body.amount)

\* transferSchema: the amount, and the refinement that sender and receiver
\* differ.
transferSchema(body) ==
    /\ positiveIntegerSchema(body.amount)
    /\ body.senderWalletId # body.receiverWalletId

\* createUserSchema; every modelled email is well-formed.
createUserSchema(body) ==
    /\ Len(body.email) <= MaxNameLength
    /\ Len(body.name) >= 1 /\ Len(body.name) <= MaxNameLength

\* validate(schema): the route's schema parses the body.
Validate(route, body) ==
    CASE route = "fund" -> fundWalletSchema(body)
      [] route = "transfer" -> transferSchema(body)
      [] OTHER -> createUserSchema(body)

\* The header is taken to be there always.
HeaderMissing_Never(key) == FALSE

\* req.headers["idempotency-key"] === undefined
HeaderMissing(key) == key = NoKey

\* Any header value passes for a key.
idempotencyKeySchema_Any(key) == TRUE

\* idempotencyKeySchema: z.string().min(1).max(255)
idempotencyKeySchema(key) == Len(key) >= 1 /\ Len(key) <= MaxKeyLength

\* ------------------------------------------------------------ hashRequest
\* A parsed JSON value: a number, a string, or an object, which is its
\* properties in the order they were sent.
Num(n) == <<"n", n>>
Str(s) == <<"s", s>>
Obj(pairs) == <<"o", pairs>>
IsObj(v) == v[1] = "o"

\* The property names that occur, in the order Array.prototype.sort() gives
\* them (by UTF-16 code unit).
KeyNames == <<"amount", "externalPaymentRef", "meta", "receiverWalletId",
              "senderWalletId", "walletId", "x">>

Range(f) == {f[i] : i \in DOMAIN f}

\* Object.keys(body): the own property names, in insertion order.
ObjectKeys(o) == [i \in DOMAIN o[2] |-> o[2][i][1]]

\* keys.sort()
Sort(keys) == SelectSeq(KeyNames, LAMBDA k : k \in Range(keys))

HasProperty(o, k) == \E i \in DOMAIN o[2] : o[2][i][1] = k
Get(o, k) == o[2][CHOOSE i \in DOMAIN o[2] : o[2][i][1] = k][2]

\* JSON.stringify(value, replacer) with an array for replacer: the array is
\* the property list of every object serialized, the nested ones too; an
\* object's text holds, in the list's order, the properties it has whose
\* names are in the list.  The text is kept as the tree it spells.
RECURSIVE JSONStringifyWith(_, _)
RECURSIVE SerializeObject(_, _, _)
SerializeObject(o, list, replacer) ==
    IF list = <<>> THEN <<>>
    ELSE IF HasProperty(o, Head(list))
    THEN <<<<Head(list), JSONStringifyWith(Get(o, Head(list)), replacer)>>>>
             \o SerializeObject(o, Tail(list), replacer)
    ELSE SerializeObject(o, Tail(list), replacer)

JSONStringifyWith(v, replacer) ==
    IF IsObj(v) THEN Obj(SerializeObject(v, replacer, replacer)) ELSE v

\* IdempotencyService.hashRequest:
\* sha256(JSON.stringify(body, Object.keys(body).sort())); the digest is
\* taken to be collision-free, so it stands for the text it was taken of.
hashRequest(body) == JSONStringifyWith(body, Sort(ObjectKeys(body)))

\* req.body of a fund or transfer request as express.json() parsed it.
BodyObject(route, body) ==
    IF route = "fund"
    THEN Obj(<<<<"walletId", Str(body.walletId)>>, <<"amount", Num(body.amount)>>,
               <<"externalPaymentRef", Str(body.externalPaymentRef)>>>>)
    ELSE Obj(<<<<"senderWalletId", Str(body.senderWalletId)>>,
               <<"receiverWalletId", Str(body.receiverWalletId)>>,
               <<"amount", Num(body.amount)>>>>)

AppErrorStatus(code) ==
    CASE code = "INSUFFICIENT_BALANCE" -> 400
      [] code = "VALIDATION_ERROR" -> 400
      [] code = "WALLET_NOT_FOUND" -> 404
      [] code = "DUPLICATE_PAYMENT_REF" -> 409
      [] code = "DUPLICATE_EMAIL" -> 409
      [] code = "IDEMPOTENCY_KEY_CONFLICT" -> 409
      [] OTHER -> 500

\* errorHandler: an AppError answers with its own status and code, anything
\* else with 500 INTERNAL_SERVER_ERROR.
ErrorResponse(code) ==
    IF code \in {"INSUFFICIENT_BALANCE", "VALIDATION_ERROR", "WALLET_NOT_FOUND",
                 "DUPLICATE_PAYMENT_REF", "DUPLICATE_EMAIL",
                 "IDEMPOTENCY_KEY_CONFLICT"}
    THEN [status |-> AppErrorStatus(code), body |-> Body("error", code, 0, "")]
    ELSE [status |-> 500, body |-> Body("error", "INTERNAL_SERVER_ERROR", 0, "")]

\* The same for an error whose message names a wallet: WalletNotFoundError's
\* "Wallet <id> not found".
ErrorResponseFor(code, arg) == [ErrorResponse(code) EXCEPT !.body.id = arg]

\* res.status(..).json(..) of a request the gate let through: the response
\* leaves, and with a key the wrapped json has started storeKey.
Respond(q, response) ==
    [q EXCEPT !.resp = response,
              !.pc = IF q.key = NoKey THEN "done" ELSE "store",
              !.snap = 0, !.startedAt = 0, !.txTransfers = {}, !.txEntries = <<>>,
              !.txUsers = {}, !.txWallets = {},
              !.result = {}, !.err = "", !.errArg = 0]

\* The handler is entered: validate, then the first awaited call of the route.
Enter(q) ==
    IF ~Validate(q.route, q.body)
    THEN Respond(q, ErrorResponse("VALIDATION_ERROR"))
    ELSE [q EXCEPT !.executed = TRUE,
                   !.pc = CASE q.route = "fund" -> "f_find"
                            [] q.route = "transfer" -> "t_begin"
                            [] OTHER -> "u_begin"]


\* ------------------------------------------------------- idempotency store
\* JSON.stringify(responseBody) into the JSONB column, and the parse back.
JSONStringify(b) == <<b.tag, b.code, b.id, b.state>>
JSONParse(j) == [tag |-> j[1], code |-> j[2], id |-> j[3], state |-> j[4]]

\* WHERE key = $1, the expiry left out.
getKey_IgnoreExpiry(key) == IF idem[key] # NoRow THEN {idem[key]} ELSE {}

\* The row is still returned at the instant it expires.
getKey_Inclusive(key) ==
    IF idem[key] # NoRow /\ idem[key].expires_at >= now THEN {idem[key]} ELSE {}

\* IdempotencyService.getKey: WHERE key = $1 AND expires_at > NOW()
getKey(key) ==
    IF idem[key] # NoRow /\ idem[key].expires_at > now THEN {idem[key]} ELSE {}

\* IdempotencyService.checkAndGetResponse: "miss", "conflict" or "hit".
checkAndGetResponse(key, requestHash) ==
    IF getKey(key) = {} THEN "miss"
    ELSE IF idem[key].request_hash # requestHash THEN "conflict"
    ELSE "hit"

\* ON CONFLICT (key) DO UPDATE SET every column: the last writer's row.
InsertKeyOnConflict_Overwrite(rows, key, requestHash, responseStatus, responseBody, expiresAt) ==
    [rows EXCEPT ![key] =
        [request_hash |-> requestHash, response_status |-> responseStatus,
         response_body |-> JSONStringify(responseBody), expires_at |-> expiresAt]]

\* INSERT .. ON CONFLICT (key) DO UPDATE SET key = EXCLUDED.key
InsertKeyOnConflict(rows, key, requestHash, responseStatus, responseBody, expiresAt) ==
    IF rows[key] # NoRow THEN rows
    ELSE [rows EXCEPT ![key] =
            [request_hash |-> requestHash, response_status |-> responseStatus,
             response_body |-> JSONStringify(responseBody), expires_at |-> expiresAt]]

\* IdempotencyService.storeKey: the table after the INSERT, the row it
\* RETURNs, and whether IdempotencyKeyConflictError is thrown.
storeKey(rows, key, requestHash, responseStatus, responseBody) ==
    LET after == InsertKeyOnConflict(rows, key, requestHash, responseStatus,
                                     responseBody, now + ttlHours)
    IN  [rows |-> after, storedKey |-> after[key],
         conflict |-> after[key].request_hash # requestHash]

\* ------------------------------------------------------------- transfer
\* A wallet id arrives as text.  z.string().uuid() accepts hex digits of
\* either case and PostgreSQL reads both as the same uuid, so a wallet has two
\* spellings that occur here: w stands for the lower-case text of wallet w,
\* the one the service hands out, and Upper(w) for the same text in upper
\* case.
Upper(w) == 0 - w
IsUpper(text) == text < 0

\* $1::uuid: the wallet a text names.
uuid(text) == IF IsUpper(text) THEN 0 - text ELSE text

\* a <= b as Array.prototype.sort() compares strings, by UTF-16 code unit:
\* upper-case letters come before lower-case ones.  The ids of the wallets
\* are taken to differ first at a position where both have a letter, so
\* texts of one case are in the order of their wallets.
StringLessEq(a, b) ==
    IF IsUpper(a) = IsUpper(b) THEN uuid(a) <= uuid(b) ELSE IsUpper(a)

\* [sender, receiver].sort()
SortedWalletIds(s, rcv) == IF StringLessEq(s, rcv) THEN <<s, rcv>> ELSE <<rcv, s>>

walletIds(q) == SortedWalletIds(q.body.senderWalletId, q.body.receiverWalletId)

\* wallet1Result.rows.length === 0 ? firstWalletId : secondWalletId
missingWalletId(q) ==
    IF ~WalletExists(uuid(walletIds(q)[1])) THEN walletIds(q)[1] ELSE walletIds(q)[2]

\* The ledger rows a transaction's snapshot shows it.
Visible(q) == SubSeq(ledger, 1, q.snap)

\* The comparison made strict on the boundary: the whole balance cannot be sent.
InsufficientBalance_Strict(balance, amount) == balance <= amount

\* The comparison left out: every amount passes.
InsufficientBalance_Never(balance, amount) == FALSE

\* The comparison against zero instead of the amount.
InsufficientBalance_Negative(balance, amount) == balance < 0

\* balance < input.amount
InsufficientBalance(balance, amount) == balance < amount

\* SERIALIZABLE: the write of a ledger row for wallet w by transaction q fails
\* when q's snapshot missed a row that a transfer committed on q's sender
\* since, and that transfer read the balance of w (a read-write cycle).
SerializationFailure(q, w) ==
    \E i \in (q.snap + 1) .. Len(ledger) :
        /\ ledger[i].wallet_id = uuid(q.body.senderWalletId)
        /\ \E t \in transfers :
              t.id = ledger[i].transfer_id /\ t.sender_wallet_id = w

\* The two ledger rows of transfer tid: the debit on the sender and the
\* credit on the receiver, under transaction reference transfer_<tid>.
DebitEntry(b, tid, at) ==
    LedgerEntry(uuid(b.senderWalletId), b.amount, "debit", <<"transfer", tid>>, tid,
                "null", at)

\* The credit leg with twice the amount of the debit leg.
CreditEntry_Doubled(b, tid, at) ==
    LedgerEntry(uuid(b.receiverWalletId), 2 * b.amount, "credit", <<"transfer", tid>>, tid,
                "null", at)

CreditEntry(b, tid, at) ==
    LedgerEntry(uuid(b.receiverWalletId), b.amount, "credit", <<"transfer", tid>>, tid,
                "null", at)

\* pool.query in place of client.query: the row is committed on its own.
TxInsert_Autocommit(committed, pending, row) ==
    [committed |-> Append(committed, row), pending |-> pending]

\* client.query(INSERT ..) inside the transaction: the row is the
\* transaction's own until COMMIT.
TxInsert(committed, pending, row) ==
    [committed |-> committed, pending |-> Append(pending, row)]

\* The transaction's rows replace the table's.
CommitEntries_Overwrite(committed, pending) == pending

\* COMMIT: the transaction's rows join the table.
CommitEntries(committed, pending) == committed \o pending

Release(locks, r) == [w \in DOMAIN locks |-> IF locks[w] = r THEN 0 ELSE locks[w]]

InTx(q) == q.pc \in {"t_lock1", "t_lock2", "t_balance", "t_ins_transfer", "t_debit",
                     "t_credit", "t_update", "t_commit"}

\* ------------------------------------------------------------ getEntries
Min(a, b) == IF a < b THEN a ELSE b

\* WHERE wallet_id = $1: the rows of the wallet, by their place in the table.
WalletRows(w) == {i \in 1 .. Len(ledger) : ledger[i].wallet_id = w}

\* ORDER BY created_at DESC: every arrangement of the rows in which no row
\* precedes one created later; rows of equal created_at come in whatever
\* order the executor produces them, which may differ from query to query.
OrderByCreatedAtDesc(S) ==
    {p \in [1 .. Cardinality(S) -> S] :
        /\ \A i, j \in DOMAIN p : i # j => p[i] # p[j]
        /\ \A i, j \in DOMAIN p :
              i < j => ledger[p[i]].created_at >= ledger[p[j]].created_at}

\* LIMIT $2 OFFSET $3
LimitOffset(p, limit, offset) == SubSeq(p, offset + 1, Min(offset + limit, Len(p)))

\* LedgerService.getEntries: the results the query can give.
getEntries(w, limit, offset) ==
    {[k \in DOMAIN q |-> ledger[q[k]]] :
        q \in {LimitOffset(p, limit, offset) : p \in OrderByCreatedAtDesc(WalletRows(w))}}

\* A lock on the whole wallets table in place of the row's.
RowLockAvailable_TableLock(w, r) == \A v \in DOMAIN lockOwner : lockOwner[v] \in {0, r}

\* .. WHERE id = $1 FOR UPDATE: the row's lock is free, or the transaction
\* asking for it has it already.
RowLockAvailable(w, r) == lockOwner[w] \in {0, r}

\* Request r has asked for the FOR UPDATE lock of wallet w and another holds it.
Waiting(r, w) ==
    /\ \/ req[r].pc = "t_lock1" /\ w = uuid(walletIds(req[r])[1])
       \/ req[r].pc = "t_lock2" /\ w = uuid(walletIds(req[r])[2])
    /\ lockOwner[w] \notin {0, r}

WaitsFor(p, r) == p # r /\ \E w \in Wallets : Waiting(p, w) /\ lockOwner[w] = r

RECURSIVE WaitReach(_, _)
WaitReach(S, n) ==
    IF n = 0 THEN S
    ELSE WaitReach(S \cup {r \in Reqs : \E p \in S : WaitsFor(p, r)}, n - 1)

\* ---------------------------------------------------------------- init
\* hashRequest has not been called.
NoHash == [left |-> <<>>, right |-> <<>>, hl |-> <<>>, hr |-> <<>>]

\* Nobody has called GET /transactions.
NoClient == [walletId |-> 0, limit |-> 0, pages |-> <<>>]

Init ==
    /\ ledger = <<>>
    /\ transfers = {}
    /\ idem = [k \in IdempotencyKeys |-> NoRow]
    /\ lockOwner = [w \in Ids |-> 0]
    /\ now = 0
    /\ req = [r \in Reqs |-> Idle]
    /\ users = {[id |-> w, email |-> SeedEmail(w)] : w \in Wallets}
    /\ wallets = {[id |-> w, user_id |-> w] : w \in Wallets}
    /\ client = NoClient
    /\ hashed = NoHash

\* -------------------------------------------------------------- actions
\* The requests being served, a pending storeKey included.
InFlight == {p \in Reqs : req[p].pc \notin {"idle", "done"}}

\* The requests with this key and this body that have been answered already.
Answered(route, key, body) ==
    {p \in Reqs : /\ key # NoKey
                  /\ req[p].resp # NoResp
                  /\ req[p].key = key /\ req[p].route = route /\ req[p].body = body}

\* A request arrives.  Without an Idempotency-Key header the middleware calls
\* next() at once; a header value the schema turns down is answered 400 on
\* the spot; with a valid one the middleware starts checkAndGetResponse.
Arrive(r, route, key, body) ==
    /\ req[r].pc = "idle"
    /\ r > 1 => req[r - 1].pc # "idle"
    /\ Cardinality(InFlight) < MaxInFlight
    /\ LET q == [req[r] EXCEPT !.route = route, !.key = key, !.body = body,
                               !.before = Answered(route, key, body)]
       IN  req' = [req EXCEPT ![r] =
              IF HeaderMissing(key) THEN Enter(q)
              ELSE IF ~idempotencyKeySchema(key)
              THEN [q EXCEPT !.pc = "done", !.resp = ErrorResponse("VALIDATION_ERROR")]
              ELSE [q EXCEPT !.pc = "gate"]]
    /\ UNCHANGED <<ledger, transfers, idem, lockOwner, now, users, wallets, client, hashed>>

\* idempotencyMiddleware, after checkAndGetResponse resolves.
GateCheck(r) ==
    /\ req[r].pc = "gate"
    /\ LET q == req[r]
           found == checkAndGetResponse(q.key, hashRequest(BodyObject(q.route, q.body)))
       IN  req' = [req EXCEPT ![r] =
              CASE found = "hit" ->
                     [q EXCEPT !.pc = "done",
                               !.resp = [status |-> idem[q.key].response_status,
                                         body |-> JSONParse(idem[q.key].response_body)]]
                [] found = "conflict" ->
                     [q EXCEPT !.pc = "done",
                               !.resp = ErrorResponse("IDEMPOTENCY_KEY_CONFLICT")]
                [] OTHER -> Enter(q)]
    /\ UNCHANGED <<ledger, transfers, idem, lockOwner, now, users, wallets, client, hashed>>

\* storeKey, started by the wrapped res.json and not awaited.
StoreKey(r) ==
    /\ req[r].pc = "store"
    /\ idem' = storeKey(idem, req[r].key,
                        hashRequest(BodyObject(req[r].route, req[r].body)),
                        req[r].resp.status, req[r].resp.body).rows
    /\ req' = [req EXCEPT ![r].pc = "done"]
    /\ UNCHANGED <<ledger, transfers, lockOwner, now, users, wallets, client, hashed>>

\* storeKey awaited and its rejection passed on: the caller gets the error.
StoreKeyFails_Surfaced(r) ==
    /\ req[r].pc = "store"
    /\ req' = [req EXCEPT ![r].pc = "done", ![r].resp = ErrorResponse("ECONNRESET")]
    /\ UNCHANGED <<ledger, transfers, idem, lockOwner, now, users, wallets, client, hashed>>

\* storeKey rejects (a storage error): logged, not surfaced.
StoreKeyFails(r) ==
    /\ req[r].pc = "store"
    /\ req' = [req EXCEPT ![r].pc = "done"]
    /\ UNCHANGED <<ledger, transfers, idem, lockOwner, now, users, wallets, client, hashed>>

\* DELETE without the WHERE clause: every row goes.
ExpiredKeys_All(rows) == {k \in DOMAIN rows : rows[k] # NoRow}

\* DELETE FROM idempotency_keys WHERE expires_at <= NOW() RETURNING key
ExpiredKeys(rows) == {k \in DOMAIN rows : rows[k] # NoRow /\ rows[k].expires_at <= now}

DeleteExpired(rows) ==
    [k \in DOMAIN rows |-> IF k \in ExpiredKeys(rows) THEN NoRow ELSE rows[k]]

\* result.rows.length
deletedCount(rows) == Cardinality(ExpiredKeys(rows))

\* IdempotencyService.cleanupExpiredKeys; a run that finds nothing to delete
\* changes nothing.
cleanupExpiredKeys ==
    /\ deletedCount(idem) > 0
    /\ idem' = DeleteExpired(idem)
    /\ UNCHANGED <<ledger, transfers, lockOwner, now, req, users, wallets, client, hashed>>

\* The clock advances.
Tick ==
    /\ now < MaxTime
    /\ now' = now + 1
    /\ UNCHANGED <<ledger, transfers, idem, lockOwner, req, users, wallets, client, hashed>>

\* FundingService.fundWallet: findEntryByExternalPaymentRef, and then
\* LedgerService.createEntry's check of the wallet row (wallet rows never
\* change, so the second query reads what it would read at any later time).
FundFind(r) ==
    /\ req[r].pc = "f_find"
    /\ req' = [req EXCEPT ![r] =
          IF findEntryByExternalPaymentRef(req[r].body.externalPaymentRef) # {}
          THEN Respond(req[r], ErrorResponse("DUPLICATE_PAYMENT_REF"))
          ELSE IF ~WalletExists(uuid(req[r].body.walletId))
          THEN Respond(req[r], ErrorResponseFor("WALLET_NOT_FOUND", req[r].body.walletId))
          ELSE [req[r] EXCEPT !.pc = "f_insert"]]
    /\ UNCHANGED <<ledger, transfers, idem, lockOwner, now, users, wallets, client, hashed>>

\* LedgerService.createEntry: the INSERT, in its own implicit transaction.  The
\* foreign key on wallet_id takes FOR KEY SHARE on the wallet row, which waits
\* for a FOR UPDATE lock; the unique index rejects a second row of the same
\* external_payment_ref with error 23505, and the CHECK on amount a
\* non-positive one with 23514; nothing translates either.
FundInsert(r) ==
    /\ req[r].pc = "f_insert"
    /\ lockOwner[uuid(req[r].body.walletId)] = 0
    /\ LET b == req[r].body IN
       IF ~AmountCheck(b.amount)
       THEN /\ req' = [req EXCEPT ![r] = Respond(req[r], ErrorResponse("23514"))]
            /\ UNCHANGED ledger
       ELSE IF UniqueViolation(ledger, b.externalPaymentRef)
       THEN /\ req' = [req EXCEPT ![r] = Respond(req[r], ErrorResponse("23505"))]
            /\ UNCHANGED ledger
       ELSE /\ ledger' = createEntry(ledger,
                            LedgerEntry(uuid(b.walletId), b.amount, "credit", <<"fund", r>>,
                                        0, b.externalPaymentRef, now))
            /\ req' = [req EXCEPT ![r] =
                         Respond(req[r], [status |-> 201,
                                          body |-> Body("transaction", "", Len(ledger) + 1, "")])]
    /\ UNCHANGED <<transfers, idem, lockOwner, now, users, wallets, client, hashed>>

\* TransferService.transfer: BEGIN, SET TRANSACTION ISOLATION LEVEL
\* SERIALIZABLE, and the first SELECT .. FOR UPDATE is sent: the transaction's
\* snapshot is taken when its first query starts, before it waits for a lock.
TransferBegin(r) ==
    /\ req[r].pc = "t_begin"
    /\ req' = [req EXCEPT ![r].pc = "t_lock1", ![r].snap = Len(ledger),
                          ![r].startedAt = now]
    /\ UNCHANGED <<ledger, transfers, idem, lockOwner, now, users, wallets, client, hashed>>

\* SELECT id FROM wallets WHERE id = firstWalletId FOR UPDATE returns.
LockFirst(r) ==
    /\ req[r].pc = "t_lock1"
    /\ LET w == uuid(walletIds(req[r])[1]) IN
       IF WalletExists(w)
       THEN /\ RowLockAvailable(w, r)
            /\ lockOwner' = [lockOwner EXCEPT ![w] = r]
       ELSE UNCHANGED lockOwner
    /\ req' = [req EXCEPT ![r].pc = "t_lock2"]
    /\ UNCHANGED <<ledger, transfers, idem, now, users, wallets, client, hashed>>

\* SELECT .. FOR UPDATE of secondWalletId returns; then the check that both
\* rows exist.
LockSecond(r) ==
    /\ req[r].pc = "t_lock2"
    /\ LET w == uuid(walletIds(req[r])[2]) IN
       IF WalletExists(w)
       THEN /\ RowLockAvailable(w, r)
            /\ lockOwner' = [lockOwner EXCEPT ![w] = r]
       ELSE UNCHANGED lockOwner
    /\ req' = [req EXCEPT ![r] =
          IF \/ ~WalletExists(uuid(walletIds(req[r])[1]))
             \/ ~WalletExists(uuid(walletIds(req[r])[2]))
          THEN [req[r] EXCEPT !.pc = "t_rollback", !.err = "WALLET_NOT_FOUND",
                              !.errArg = missingWalletId(req[r])]
          ELSE [req[r] EXCEPT !.pc = "t_balance"]]
    /\ UNCHANGED <<ledger, transfers, idem, now, users, wallets, client, hashed>>

\* The sender's balance is read and compared with the amount.
CheckBalance(r) ==
    /\ req[r].pc = "t_balance"
    /\ LET balance == BalanceQuery(Visible(req[r]), uuid(req[r].body.senderWalletId)) IN
       req' = [req EXCEPT ![r] =
          IF InsufficientBalance(balance, req[r].body.amount)
          THEN [req[r] EXCEPT !.pc = "t_rollback", !.err = "INSUFFICIENT_BALANCE"]
          ELSE [req[r] EXCEPT !.pc = "t_ins_transfer"]]
    /\ UNCHANGED <<ledger, transfers, idem, lockOwner, now, users, wallets, client, hashed>>

\* INSERT INTO transfers .. 'pending'; the transfer id is fresh.
InsertTransfer(r) ==
    /\ req[r].pc = "t_ins_transfer"
    /\ LET b == req[r].body IN
       req' = [req EXCEPT ![r] =
          IF ~AmountCheck(b.amount)
          THEN [req[r] EXCEPT !.pc = "t_rollback", !.err = "23514"]
          ELSE [req[r] EXCEPT !.pc = "t_debit",
                              !.txTransfers =
                                  {TransferRow(r, uuid(b.senderWalletId),
                                               uuid(b.receiverWalletId),
                                               b.amount, "pending")}]]
    /\ UNCHANGED <<ledger, transfers, idem, lockOwner, now, users, wallets, client, hashed>>

\* INSERT INTO ledger_entries .. 'debit' for the sender
InsertDebit(r) ==
    /\ req[r].pc = "t_debit"
    /\ LET b == req[r].body
           w == TxInsert(ledger, req[r].txEntries, DebitEntry(b, r, req[r].startedAt))
       IN  IF SerializationFailure(req[r], uuid(b.senderWalletId))
           THEN /\ req' = [req EXCEPT ![r].pc = "t_rollback", ![r].err = "40001"]
                /\ UNCHANGED ledger
           ELSE /\ req' = [req EXCEPT ![r].pc = "t_credit", ![r].txEntries = w.pending]
                /\ ledger' = w.committed
    /\ UNCHANGED <<transfers, idem, lockOwner, now, users, wallets, client, hashed>>

\* INSERT INTO ledger_entries .. 'credit' for the receiver
InsertCredit(r) ==
    /\ req[r].pc = "t_credit"
    /\ LET b == req[r].body
           w == TxInsert(ledger, req[r].txEntries, CreditEntry(b, r, req[r].startedAt))
       IN  IF SerializationFailure(req[r], uuid(b.receiverWalletId))
           THEN /\ req' = [req EXCEPT ![r].pc = "t_rollback", ![r].err = "40001"]
                /\ UNCHANGED ledger
           ELSE /\ req' = [req EXCEPT ![r].pc = "t_update", ![r].txEntries = w.pending]
                /\ ledger' = w.committed
    /\ UNCHANGED <<transfers, idem, lockOwner, now, users, wallets, client, hashed>>

\* UPDATE transfers SET status = 'completed' WHERE id = transferId, and the
\* SELECT * FROM transfers WHERE id = transferId that reads the row back,
\* still inside the transaction.
UpdateStatus(r) ==
    /\ req[r].pc = "t_update"
    /\ LET updated == {[t EXCEPT !.status = "completed"] : t \in req[r].txTransfers} IN
       req' = [req EXCEPT ![r].pc = "t_commit",
                          ![r].txTransfers = updated,
                          ![r].result = {t \in updated : t.id = r}]
    /\ UNCHANGED <<ledger, transfers, idem, lockOwner, now, users, wallets, client, hashed>>

\* COMMIT, release, and the route answers 201 with the transfer.
Commit(r) ==
    /\ req[r].pc = "t_commit"
    /\ ledger' = CommitEntries(ledger, req[r].txEntries)
    /\ transfers' = transfers \cup req[r].txTransfers
    /\ lockOwner' = Release(lockOwner, r)
    /\ LET t == CHOOSE t \in req[r].result : TRUE IN
       req' = [req EXCEPT ![r] =
                 Respond(req[r], [status |-> 201,
                                  body |-> Body("transfer", "", t.id, t.status)])]
    /\ UNCHANGED <<idem, now, users, wallets, client, hashed>>

\* Any awaited query of the transaction rejects (connection loss, a
\* serialization failure the store reports): control goes to the catch block.
StorageError(r) ==
    /\ InTx(req[r])
    /\ req' = [req EXCEPT ![r].pc = "t_rollback", ![r].err = "ECONNRESET"]
    /\ UNCHANGED <<ledger, transfers, idem, lockOwner, now, users, wallets, client, hashed>>

\* PostgreSQL's deadlock detector: a transaction that waits for a lock in a
\* cycle of waiting transactions has its query rejected with error 40P01.
DeadlockDetected(r) ==
    /\ r \in WaitReach({p \in Reqs : WaitsFor(r, p)}, NumReq)
    /\ req' = [req EXCEPT ![r].pc = "t_rollback", ![r].err = "40P01"]
    /\ UNCHANGED <<ledger, transfers, idem, lockOwner, now, users, wallets, client, hashed>>

\* catch: ROLLBACK, release, rethrow; errorHandler answers.
Rollback(r) ==
    /\ req[r].pc = "t_rollback"
    /\ lockOwner' = Release(lockOwner, r)
    /\ req' = [req EXCEPT ![r] =
                 Respond(req[r], ErrorResponseFor(req[r].err, req[r].errArg))]
    /\ UNCHANGED <<ledger, transfers, idem, now, users, wallets, client, hashed>>

\* GET /transactions?walletId=w&limit=..&offset=..: getEntries, and the rows
\* go out as they came; the caller keeps the page.
GetTransactions(w, limit, offset) ==
    /\ \E page \in getEntries(w, limit, offset) :
          client' = [walletId |-> w, limit |-> limit,
                     pages |-> Append(client.pages, page)]
    /\ UNCHANGED <<ledger, transfers, idem, lockOwner, now, req, users, wallets, hashed>>

\* The middleware's call of hashRequest on two bodies, for the comparison
\* checkAndGetResponse and storeKey make of their fingerprints.
HashRequests(a, b) ==
    /\ hashed = NoHash
    /\ hashed' = [left |-> a, right |-> b, hl |-> hashRequest(a), hr |-> hashRequest(b)]
    /\ UNCHANGED <<ledger, transfers, idem, lockOwner, now, req, users, wallets, client>>

\* ------------------------------------------------------------ createUser
\* The users table without its unique index on email.
EmailTaken_Never(rows, email) == FALSE

\* users.email VARCHAR(255) UNIQUE NOT NULL: a committed row has this email.
EmailTaken(rows, email) == \E u \in rows : u.email = email

\* Another createUser has inserted this email and not yet ended: the unique
\* index makes the second INSERT wait for it.
EmailPending(r, email) ==
    \E p \in Reqs \ {r} : \E u \in req[p].txUsers : u.email = email

InUserTx(q) == q.pc \in {"u_user", "u_wallet", "u_commit"}

\* WalletService.createUser: pool.connect() and BEGIN
UserBegin(r) ==
    /\ req[r].pc = "u_begin"
    /\ req' = [req EXCEPT ![r].pc = "u_user"]
    /\ UNCHANGED <<ledger, transfers, idem, lockOwner, now, users, wallets, client, hashed>>

\* INSERT INTO users (id, email, name) VALUES (gen_random_uuid(), ..)
InsertUser(r) ==
    /\ req[r].pc = "u_user"
    /\ ~EmailPending(r, req[r].body.email)
    /\ req' = [req EXCEPT ![r] =
          IF EmailTaken(users, req[r].body.email)
          THEN [req[r] EXCEPT !.pc = "u_rollback", !.err = "23505"]
          ELSE [req[r] EXCEPT !.pc = "u_wallet",
                              !.txUsers = {[id |-> FreshId(r),
                                            email |-> req[r].body.email]}]]
    /\ UNCHANGED <<ledger, transfers, idem, lockOwner, now, users, wallets, client, hashed>>

\* INSERT INTO wallets (id, user_id) VALUES (gen_random_uuid(), user.id)
InsertWallet(r) ==
    /\ req[r].pc = "u_wallet"
    /\ req' = [req EXCEPT ![r].pc = "u_commit",
                          ![r].txWallets = {[id |-> FreshId(r), user_id |-> u.id] :
                                               u \in req[r].txUsers}]
    /\ UNCHANGED <<ledger, transfers, idem, lockOwner, now, users, wallets, client, hashed>>

\* COMMIT, and the route answers 201 with the user and the wallet.
CommitUser(r) ==
    /\ req[r].pc = "u_commit"
    /\ users' = users \cup req[r].txUsers
    /\ wallets' = wallets \cup req[r].txWallets
    /\ req' = [req EXCEPT ![r] =
                 Respond(req[r], [status |-> 201,
                                  body |-> Body("user", "", FreshId(r), "")])]
    /\ UNCHANGED <<ledger, transfers, idem, lockOwner, now, client, hashed>>

\* An awaited query of createUser rejects for a reason of the store's.
UserStorageError(r) ==
    /\ InUserTx(req[r])
    /\ req' = [req EXCEPT ![r].pc = "u_rollback", ![r].err = "ECONNRESET"]
    /\ UNCHANGED <<ledger, transfers, idem, lockOwner, now, users, wallets, client, hashed>>

\* catch: ROLLBACK; a 23505 becomes DuplicateEmailError, anything else is
\* rethrown as it is.
UserRollback(r) ==
    /\ req[r].pc = "u_rollback"
    /\ req' = [req EXCEPT ![r] =
                 Respond(req[r], ErrorResponse(IF req[r].err = "23505"
                                               THEN "DUPLICATE_EMAIL"
                                               ELSE req[r].err))]
    /\ UNCHANGED <<ledger, transfers, idem, lockOwner, now, users, wallets, client, hashed>>

\* ----------------------------------------------------------------- next
Next ==
    \/ \E r \in Reqs, k \in IdempotencyKeys \cup {NoKey} :
          \/ \E b \in FundBodies : Arrive(r, "fund", k, b)
          \/ \E b \in TransferBodies : Arrive(r, "transfer", k, b)
    \/ \E r \in Reqs :
          \/ GateCheck(r)
          \/ StoreKey(r)
          \/ StoreKeyFails(r)
          \/ FundFind(r)
          \/ FundInsert(r)
          \/ TransferBegin(r)
          \/ LockFirst(r)
          \/ LockSecond(r)
          \/ CheckBalance(r)
          \/ InsertTransfer(r)
          \/ InsertDebit(r)
          \/ InsertCredit(r)
          \/ UpdateStatus(r)
          \/ Commit(r)
          \/ StorageError(r)
          \/ Rollback(r)
    \/ cleanupExpiredKeys
    \/ (\E k \in IdempotencyKeys : idem[k] # NoRow) /\ Tick

Spec == Init /\ [][Next]_vars

\* The ledger alone: requests without an Idempotency-Key header, which the
\* middleware hands straight to the route.
LedgerNext ==
    \/ \E r \in Reqs :
          \/ \E b \in FundBodies : Arrive(r, "fund", NoKey, b)
          \/ \E b \in TransferBodies : Arrive(r, "transfer", NoKey, b)
    \/ \E r \in Reqs :
          \/ FundFind(r)
          \/ FundInsert(r)
          \/ TransferBegin(r)
          \/ LockFirst(r)
          \/ LockSecond(r)
          \/ CheckBalance(r)
          \/ InsertTransfer(r)
          \/ InsertDebit(r)
          \/ InsertCredit(r)
          \/ UpdateStatus(r)
          \/ Commit(r)
          \/ StorageError(r)
          \/ Rollback(r)

\* The service under requests of any shape: bodies of any wallet id and any
\* amount without an Idempotency-Key header, and well-formed bodies under a
\* header value the schema turns down; the store answers every query.
InputNext ==
    \/ \E r \in Reqs :
          \/ \E b \in InputFundBodies : Arrive(r, "fund", NoKey, b)
          \/ \E b \in InputTransferBodies : Arrive(r, "transfer", NoKey, b)
          \/ \E k \in InvalidKeys, b \in FundBodies : Arrive(r, "fund", k, b)
          \/ \E k \in InvalidKeys, b \in TransferBodies : Arrive(r, "transfer", k, b)
    \/ \E r \in Reqs :
          \/ FundFind(r)
          \/ FundInsert(r)
          \/ TransferBegin(r)
          \/ LockFirst(r)
          \/ LockSecond(r)
          \/ CheckBalance(r)
          \/ InsertTransfer(r)
          \/ InsertDebit(r)
          \/ InsertCredit(r)
          \/ UpdateStatus(r)
          \/ Commit(r)
          \/ Rollback(r)

InputSpec == Init /\ [][InputNext]_vars

\* Requests between the wallets there are, of an amount that may be zero
\* and a receiver that may be the sender, with and without a well-formed
\* Idempotency-Key; the store answers every query and no row expires.
KeyedFundBodies ==
    [walletId : Wallets, amount : 0 .. MaxAmount, externalPaymentRef : PaymentRefs]

KeyedTransferBodies ==
    {b \in [senderWalletId : Wallets, receiverWalletId : Wallets,
            amount : 0 .. MaxAmount] :
        Faults(<<b.senderWalletId = b.receiverWalletId, b.amount <= 0>>) <= 1}

KeyedInputNext ==
    \/ \E r \in Reqs, k \in IdempotencyKeys \cup {NoKey} :
          \/ \E b \in KeyedFundBodies : Arrive(r, "fund", k, b)
          \/ \E b \in KeyedTransferBodies : Arrive(r, "transfer", k, b)
    \/ \E r \in Reqs :
          \/ GateCheck(r)
          \/ StoreKey(r)
          \/ StoreKeyFails(r)
          \/ FundFind(r)
          \/ FundInsert(r)
          \/ TransferBegin(r)
          \/ LockFirst(r)
          \/ LockSecond(r)
          \/ CheckBalance(r)
          \/ InsertTransfer(r)
          \/ InsertDebit(r)
          \/ InsertCredit(r)
          \/ UpdateStatus(r)
          \/ Commit(r)
          \/ Rollback(r)

KeyedInputSpec == Init /\ [][KeyedInputNext]_vars

\* POST /users alone: createUser requests, which pass no idempotency gate.
UserNext ==
    \/ \E r \in Reqs, b \in UserBodies : Arrive(r, "user", NoKey, b)
    \/ \E r \in Reqs :
          \/ UserBegin(r)
          \/ InsertUser(r)
          \/ InsertWallet(r)
          \/ CommitUser(r)
          \/ UserStorageError(r)
          \/ UserRollback(r)

UserSpec == Init /\ [][UserNext]_vars

\* Wallet ids in either spelling: fundings and transfers without a key, the
\* transfers naming each wallet by its lower-case or its upper-case text.
UuidTexts == Wallets \cup {Upper(w) : w \in Wallets}

CaseTransferBodies ==
    [senderWalletId : UuidTexts, receiverWalletId : UuidTexts, amount : Amounts]

CaseNext ==
    \/ \E r \in Reqs :
          \/ \E b \in FundBodies : Arrive(r, "fund", NoKey, b)
          \/ \E b \in CaseTransferBodies : Arrive(r, "transfer", NoKey, b)
    \/ \E r \in Reqs :
          \/ FundFind(r)
          \/ FundInsert(r)
          \/ TransferBegin(r)
          \/ LockFirst(r)
          \/ LockSecond(r)
          \/ CheckBalance(r)
          \/ InsertTransfer(r)
          \/ InsertDebit(r)
          \/ InsertCredit(r)
          \/ UpdateStatus(r)
          \/ Commit(r)
          \/ DeadlockDetected(r)
          \/ Rollback(r)

CaseSpec == Init /\ [][CaseNext]_vars

\* Four wallets: two more users have signed up before the first request, and
\* POST /fund has credited one wallet of each pair; transfers between any two
\* of the four, without a key.
OtherWallets == {FreshId(1), FreshId(2)}
AllWallets == Wallets \cup OtherWallets

FundedWallets == <<1, FreshId(1)>>
FundedRefs == <<"p1", "p2">>

DisjointInit ==
    /\ ledger = [i \in 1 .. 2 |->
                   LedgerEntry(FundedWallets[i], 1, "credit", <<"fund", i>>, 0,
                               FundedRefs[i], 0)]
    /\ transfers = {}
    /\ idem = [k \in IdempotencyKeys |-> NoRow]
    /\ lockOwner = [w \in Ids |-> 0]
    /\ now = 0
    /\ req = [r \in Reqs |-> Idle]
    /\ users = {[id |-> w, email |-> SeedEmail(w)] : w \in Wallets}
                 \cup {[id |-> w, email |-> "u3@x.io"] : w \in {FreshId(1)}}
                 \cup {[id |-> w, email |-> "u4@x.io"] : w \in {FreshId(2)}}
    /\ wallets = {[id |-> w, user_id |-> w] : w \in AllWallets}
    /\ client = NoClient
    /\ hashed = NoHash

DisjointTransferBodies ==
    {b \in [senderWalletId : AllWallets, receiverWalletId : AllWallets, amount : Amounts] :
        b.senderWalletId # b.receiverWalletId}

DisjointNext ==
    \/ \E r \in Reqs, b \in DisjointTransferBodies : Arrive(r, "transfer", NoKey, b)
    \/ \E r \in Reqs :
          \/ TransferBegin(r)
          \/ LockFirst(r)
          \/ LockSecond(r)
          \/ CheckBalance(r)
          \/ InsertTransfer(r)
          \/ InsertDebit(r)
          \/ InsertCredit(r)
          \/ UpdateStatus(r)
          \/ Commit(r)
          \/ Rollback(r)

DisjointSpec == DisjointInit /\ [][DisjointNext]_vars

\* Fundings under two keys, the clock and the cleanup job.
CleanupKeys == IdempotencyKeys \cup {"k2"}

CleanupInit ==
    /\ ledger = <<>>
    /\ transfers = {}
    /\ idem = [k \in CleanupKeys |-> NoRow]
    /\ lockOwner = [w \in Ids |-> 0]
    /\ now = 0
    /\ req = [r \in Reqs |-> Idle]
    /\ users = {[id |-> w, email |-> SeedEmail(w)] : w \in Wallets}
    /\ wallets = {[id |-> w, user_id |-> w] : w \in Wallets}
    /\ client = NoClient
    /\ hashed = NoHash

CleanupNext ==
    \/ \E r \in Reqs, k \in CleanupKeys, b \in FundBodies : Arrive(r, "fund", k, b)
    \/ \E r \in Reqs :
          \/ GateCheck(r)
          \/ FundFind(r)
          \/ FundInsert(r)
          \/ StoreKey(r)
          \/ StoreKeyFails(r)
    \/ cleanupExpiredKeys
    \/ Tick

CleanupSpec == CleanupInit /\ [][CleanupNext]_vars

\* Reading a history: fundings without a key and the clock, and then, with
\* no request in flight and none arriving any more, a caller that asks for
\* one wallet's pages in turn, offset 0, limit, 2 * limit .., until a page
\* comes back short.
Limits == 1 .. MaxLimit

ReadingDone ==
    /\ client.pages # <<>>
    /\ Len(client.pages[Len(client.pages)]) < client.limit

HistoryNext ==
    \/ \E r \in Reqs, b \in FundBodies :
          client = NoClient /\ Arrive(r, "fund", NoKey, b)
    \/ \E r \in Reqs :
          \/ FundFind(r)
          \/ FundInsert(r)
    \/ client = NoClient /\ Tick
    \/ \E w \in Wallets, limit \in Limits :
          /\ InFlight = {}
          /\ client = NoClient \/ (client.walletId = w /\ client.limit = limit)
          /\ ~ReadingDone
          /\ GetTransactions(w, limit, limit * Len(client.pages))

HistorySpec == Init /\ [][HistoryNext]_vars

\* Request bodies as JSON objects: up to three properties in any order, an
\* amount, a wallet id, and a nested object of one property.
HashFields ==
    {<<"amount", Num(v)>> : v \in 1 .. MaxValue}
        \cup {<<"walletId", Str(v)>> : v \in 1 .. MaxValue}
        \cup {<<"meta", Obj(<<<<k, Num(v)>>>>)>> : k \in {"x", "amount"}, v \in 1 .. MaxValue}

HashBodies ==
    {Obj(pairs) : pairs \in
        {f \in UNION {[1 .. n -> HashFields] : n \in 1 .. 3} :
            \A i, j \in DOMAIN f : i # j => f[i][1] # f[j][1]}}

\* hashRequest alone, on any two such bodies.
HashNext == \E a, b \in HashBodies : HashRequests(a, b)

HashSpec == Init /\ [][HashNext]_vars

\* Every awaited call of a request is answered in the end: the event loop
\* runs each continuation whose query has returned, and the store answers
\* each query whose lock is free.  A storage error is possible, never owed.
LedgerProgress(r) ==
    \/ FundFind(r)
    \/ FundInsert(r)
    \/ TransferBegin(r)
    \/ LockFirst(r)
    \/ LockSecond(r)
    \/ CheckBalance(r)
    \/ InsertTransfer(r)
    \/ InsertDebit(r)
    \/ InsertCredit(r)
    \/ UpdateStatus(r)
    \/ Commit(r)
    \/ Rollback(r)

LedgerFairSpec ==
    Init /\ [][LedgerNext]_vars /\ \A r \in Reqs : WF_vars(LedgerProgress(r))

\* The same for transfers that may name a wallet in either case: the store
\* also answers a query found waiting in a cycle, with an error.
CaseFairSpec ==
    Init /\ [][CaseNext]_vars
         /\ \A r \in Reqs : WF_vars(LedgerProgress(r) \/ DeadlockDetected(r))

\* --------------------------------------------------------------- claims
HasResponse(r) == req[r].resp # NoResp

EntriesOf(w, d) ==
    {i \in 1 .. Len(ledger) : ledger[i].wallet_id = w /\ ledger[i].direction = d}

RECURSIVE SumOfEntries(_)
SumOfEntries(S) ==
    IF S = {} THEN 0
    ELSE LET i == CHOOSE j \in S : TRUE IN ledger[i].amount + SumOfEntries(S \ {i})

\* C1: in every committed state every wallet's derived balance is at least
\* zero, whatever funding and transfer requests interleave; a transfer the
\* sender cannot cover commits nothing.
C1_BalanceNeverNegative ==
    \A w \in Wallets : getBalance(w) >= 0

\* Two transfers debited the same wallet; one committed, the other was turned
\* down for insufficient balance, and the wallet is at zero.
C1_Witness ==
    \E p, r \in Reqs :
        /\ p # r
        /\ req[p].route = "transfer" /\ req[r].route = "transfer"
        /\ req[p].body.senderWalletId = req[r].body.senderWalletId
        /\ req[p].resp.status = 201
        /\ req[r].resp.body.code = "INSUFFICIENT_BALANCE"
        /\ getBalance(req[p].body.senderWalletId) = 0

\* C2: what the reads see of a transfer id is nothing at all, or one
\* completed Transfer row with one debit on its sender and one credit on its
\* receiver, both of its amount and under its transaction reference.
C2_TransferAllOrNothing ==
    \A tid \in Reqs :
        LET rows == getTransfer(tid)
            entries == {i \in 1 .. Len(ledger) : ledger[i].transfer_id = tid}
        IN  \/ rows = {} /\ entries = {}
            \/ /\ Cardinality(rows) = 1
               /\ Cardinality(entries) = 2
               /\ entries = getEntriesByTransactionReference(<<"transfer", tid>>)
               /\ \A t \in rows :
                    /\ t.status = "completed"
                    /\ \E i, j \in entries :
                         /\ ledger[i].direction = "debit"
                         /\ ledger[i].wallet_id = t.sender_wallet_id
                         /\ ledger[i].amount = t.amount
                         /\ ledger[j].direction = "credit"
                         /\ ledger[j].wallet_id = t.receiver_wallet_id
                         /\ ledger[j].amount = t.amount

\* A transfer that has written its debit is being rolled back while another
\* transfer is committed.
C2_Witness ==
    /\ transfers # {}
    /\ \E r \in Reqs : req[r].pc = "t_rollback" /\ Len(req[r].txEntries) = 1

\* No stored key can have expired yet: each row expires ttlHours after it
\* was stored.
NothingExpired == now < ttlHours

SameRequest(p, r) ==
    /\ req[p].key # NoKey
    /\ req[p].key = req[r].key
    /\ req[p].route = req[r].route
    /\ req[p].body = req[r].body

\* The ledger entries request r wrote: its funding credit, or the legs of its
\* transfer.
EffectOf(r) ==
    {i \in 1 .. Len(ledger) :
        ledger[i].transaction_reference \in {<<"fund", r>>, <<"transfer", r>>}}

\* C3: once a keyed request has been answered, every later request with the
\* same key and body (before the key expires) gets the same status and body
\* and does not run the operation again.
C3_ReplayReturnsFirstResponse ==
    \A r \in Reqs :
        (NothingExpired /\ HasResponse(r) /\ req[r].before # {}) =>
            /\ ~req[r].executed
            /\ EffectOf(r) = {}
            /\ \A p \in req[r].before : req[r].resp = req[p].resp

\* C4: of two concurrent first-time requests with one key and one body, only
\* one runs the operation, and both get the same response.
C4_ConcurrentSameKeyRunsOnce ==
    \A p, r \in Reqs :
        (/\ p # r /\ SameRequest(p, r)
         /\ NothingExpired
         /\ HasResponse(p) /\ HasResponse(r)
         /\ p \notin req[r].before /\ r \notin req[p].before) =>
            /\ ~(req[p].executed /\ req[r].executed)
            /\ req[p].resp = req[r].resp

\* C5: of two requests that use one key with bodies of different
\* fingerprints, in any interleaving, one is answered IdempotencyKeyConflict
\* and its operation does not run.
C5_KeyReuseIsConflict ==
    \A p, r \in Reqs :
        (/\ p # r
         /\ NothingExpired
         /\ req[p].key # NoKey /\ req[p].key = req[r].key
         /\ hashRequest(BodyObject(req[p].route, req[p].body))
               # hashRequest(BodyObject(req[r].route, req[r].body))
         /\ HasResponse(p) /\ HasResponse(r)) =>
            /\ ~(req[p].executed /\ req[r].executed)
            /\ \E q \in {p, r} : req[q].resp.body.code = "IDEMPOTENCY_KEY_CONFLICT"

\* C6: no external payment reference is carried by more than one ledger
\* entry, whatever funding requests interleave, with or without keys.
C6_OneEntryPerPaymentRef ==
    \A ref \in PaymentRefs : Cardinality(findEntryByExternalPaymentRef(ref)) <= 1

\* Two funding requests of one reference both ran fundWallet; one entry exists.
C6_Witness ==
    \E p, r \in Reqs :
        /\ p # r
        /\ req[p].route = "fund" /\ req[r].route = "fund"
        /\ req[p].executed /\ req[r].executed
        /\ HasResponse(p) /\ HasResponse(r)
        /\ req[p].body.externalPaymentRef = req[r].body.externalPaymentRef
        /\ req[p].key # req[r].key
        /\ Cardinality(findEntryByExternalPaymentRef(req[p].body.externalPaymentRef)) = 1

NoWaitCycle ==
    \A p \in Reqs : p \notin WaitReach({r \in Reqs : WaitsFor(p, r)}, NumReq)

\* C7: concurrent transfers never wait for each other's locks in a cycle,
\* and under fair scheduling every transfer that has begun is answered
\* (completed or failed).
C7_DeadlockFree ==
    /\ []NoWaitCycle
    /\ \A r \in Reqs : (req[r].pc = "t_begin") ~> HasResponse(r)

\* C8: a funding request that passed the existence check and whose insert
\* then meets a committed entry of the same externalPaymentRef writes nothing
\* and is answered DuplicatePaymentRef, not a generic internal error.
C8_LostRaceIsDuplicatePaymentRef ==
    [][\A r \in Reqs :
         (/\ req[r].pc = "f_insert"
          /\ req'[r].pc # "f_insert"
          /\ UniqueViolation(ledger, req[r].body.externalPaymentRef)) =>
             /\ ledger' = ledger
             /\ req'[r].resp.body.code = "DUPLICATE_PAYMENT_REF"]_vars

\* C9: getBalance(W) is the sum of W's credit amounts minus the sum of W's
\* debit amounts, and 0 for a wallet without entries.
C9_BalanceIsCreditsMinusDebits ==
    \A w \in Wallets :
        /\ getBalance(w) = SumOfEntries(EntriesOf(w, "credit"))
                             - SumOfEntries(EntriesOf(w, "debit"))
        /\ (EntriesOf(w, "credit") \cup EntriesOf(w, "debit") = {}) => getBalance(w) = 0

\* A wallet with credits and debits next to one with credits alone.
C9_Witness ==
    \E w, v \in Wallets :
        /\ EntriesOf(w, "credit") # {} /\ EntriesOf(w, "debit") # {}
        /\ EntriesOf(v, "debit") = {} /\ EntriesOf(v, "credit") # {}

\* C10: the ledger only grows: every step keeps every existing entry, with
\* its fields, at its place.
C10_LedgerAppendOnly ==
    [][/\ Len(ledger') >= Len(ledger)
       /\ SubSeq(ledger', 1, Len(ledger)) = ledger]_vars

\* Entries of a funding and of a transfer are in the ledger, and a later
\* transfer has been rolled back.
C10_Witness ==
    /\ Len(ledger) >= 3
    /\ \E r \in Reqs : req[r].route = "transfer" /\ req[r].resp.status >= 400

\* The rows a step appends to the ledger.
Appended == SubSeq(ledger', Len(ledger) + 1, Len(ledger'))

\* C11: the step that completes a transfer of a from S to R lowers
\* balance(S) by a, raises balance(R) by a, leaves every other balance as it
\* was, answers with the Transfer in status 'completed', and adds two
\* entries and no more: a debit of a on S and a credit of a on R with one
\* transfer id and one transaction reference.
C11_TransferMovesAmount ==
    [][\A r \in Reqs :
         (req[r].pc = "t_commit" /\ req'[r].resp.status = 201) =>
            LET b == req[r].body IN
            /\ BalanceQuery(ledger', uuid(b.senderWalletId))
                 = BalanceQuery(ledger, uuid(b.senderWalletId)) - b.amount
            /\ BalanceQuery(ledger', uuid(b.receiverWalletId))
                 = BalanceQuery(ledger, uuid(b.receiverWalletId)) + b.amount
            /\ \A w \in Ids \ {uuid(b.senderWalletId), uuid(b.receiverWalletId)} :
                 BalanceQuery(ledger', w) = BalanceQuery(ledger, w)
            /\ req'[r].resp.body.tag = "transfer"
            /\ req'[r].resp.body.state = "completed"
            /\ SubSeq(ledger', 1, Len(ledger)) = ledger
            /\ Len(Appended) = 2
            /\ \E i, j \in 1 .. 2 :
                 /\ Appended[i].direction = "debit"
                 /\ Appended[i].wallet_id = uuid(b.senderWalletId)
                 /\ Appended[j].direction = "credit"
                 /\ Appended[j].wallet_id = uuid(b.receiverWalletId)
            /\ \A i \in 1 .. 2 :
                 /\ Appended[i].amount = b.amount
                 /\ Appended[i].transfer_id = req'[r].resp.body.id
                 /\ Appended[i].transaction_reference = Appended[1].transaction_reference]_vars

C13_MissingWalletIsWalletNotFound ==
    [][\A r \in Reqs :
         LET b == req[r].body IN
         (/\ req[r].route = "transfer" /\ req[r].executed
          /\ ~HasResponse(r) /\ req'[r].resp # NoResp
          /\ req[r].err # "ECONNRESET"
          /\ \E w \in {uuid(b.senderWalletId), uuid(b.receiverWalletId)} : w \notin {v.id : v \in wallets}) =>
             /\ req'[r].resp.status = 404
             /\ req'[r].resp.body.code = "WALLET_NOT_FOUND"
             /\ req'[r].resp.body.id \in {b.senderWalletId, b.receiverWalletId}
             /\ uuid(req'[r].resp.body.id) \notin {v.id : v \in wallets}
             /\ ledger' = ledger /\ transfers' = transfers
             /\ \A w \in Ids : lockOwner'[w] # r
             /\ getTransfer(r) = {} /\ EffectOf(r) = {}]_vars

\* A transfer to a wallet that does not exist has locked its sender, found
\* the receiver missing, and been answered, with entries in the ledger.
C13_Witness ==
    \E r \in Reqs :
        /\ req[r].route = "transfer"
        /\ req[r].body.receiverWalletId = MissingWallet
        /\ req[r].resp.body.code = "WALLET_NOT_FOUND"
        /\ req[r].resp.body.id = MissingWallet
        /\ getBalance(uuid(req[r].body.senderWalletId)) >= req[r].body.amount

\* C14: a transfer request whose sender and receiver are the same wallet is
\* answered with a validation error without running the transfer: it holds no
\* wallet lock, opens no transaction and writes no ledger entry and no
\* Transfer row; and every Transfer row, committed or pending, has a sender
\* different from its receiver.
C14_SelfTransferRejectedBeforeLock ==
    /\ \A r \in Reqs :
          (/\ req[r].route = "transfer"
           /\ req[r].key = NoKey
           /\ req[r].body.senderWalletId = req[r].body.receiverWalletId) =>
              /\ req[r].pc = "done"
              /\ ~req[r].executed
              /\ req[r].resp = ErrorResponse("VALIDATION_ERROR")
              /\ req[r].resp.status = 400
              /\ \A w \in Ids : lockOwner[w] # r
              /\ req[r].txTransfers = {} /\ req[r].txEntries = <<>>
              /\ getTransfer(r) = {} /\ EffectOf(r) = {}
    /\ \A t \in transfers : t.sender_wallet_id # t.receiver_wallet_id
    /\ \A r \in Reqs : \A t \in req[r].txTransfers :
          t.sender_wallet_id # t.receiver_wallet_id

\* C15: while a transfer holds the lock on a wallet, no step of another
\* request adds a ledger entry for that wallet; and when a transfer commits,
\* the sender balance it computed under the lock is the sender's balance in
\* the committed ledger at that moment.
C15_BalanceUnderLockIsBalanceAtCommit ==
    [][\A r \in Reqs :
         /\ \A w \in Wallets : lockOwner[w] = r =>
               \A i \in 1 .. Len(Appended) :
                   Appended[i].wallet_id = w =>
                       Appended[i].transaction_reference = <<"transfer", r>>
         /\ (req[r].pc = "t_commit" /\ req'[r].resp.status = 201) =>
               BalanceQuery(Visible(req[r]), uuid(req[r].body.senderWalletId))
                   = getBalance(uuid(req[r].body.senderWalletId))]_vars

C17_InvalidKeyIsValidationError ==
    [][\A r \in Reqs :
         (/\ req'[r].pc # "idle"
          /\ req'[r].route \in {"fund", "transfer"}
          /\ req'[r].key # NoKey
          /\ (Len(req'[r].key) = 0 \/ Len(req'[r].key) > 255)) =>
            /\ req'[r].pc = "done"
            /\ req'[r].resp.status = 400
            /\ req'[r].resp.body.code = "VALIDATION_ERROR"
            /\ ~req'[r].executed
            /\ req'[r] # req[r] =>
                  ledger' = ledger /\ transfers' = transfers /\ idem' = idem
            /\ \A i \in 1 .. Len(ledger') :
                  ledger'[i].transaction_reference \notin {<<"fund", r>>, <<"transfer", r>>}
            /\ \A t \in transfers' : t.id # r]_vars

\* A request with an empty key and one with a key of 256 characters have
\* both been turned down, while the ledger holds entries of other requests.
C17_Witness ==
    /\ \E r \in Reqs : req[r].key = EmptyKey /\ req[r].resp.body.code = "VALIDATION_ERROR"
    /\ \E r \in Reqs : req[r].key = LongKey /\ req[r].resp.body.code = "VALIDATION_ERROR"
    /\ Len(ledger) > 0

\* The rows createUser request r has committed.
UsersOf(r) == {u \in users : u.id = FreshId(r)}
WalletsOf(r) == {w \in wallets : w.user_id = FreshId(r)}

\* C18: createUser commits a user row together with exactly one wallet row
\* owned by that user, or neither; in every state each user has exactly one
\* wallet and each wallet exactly one owner, no two users share an email, and
\* an INSERT of an email that a committed user has fails and is answered 409
\* DUPLICATE_EMAIL with nothing written.
C18_CreateUserAtomic ==
    [][/\ \A u \in users' : Cardinality({w \in wallets' : w.user_id = u.id}) = 1
       /\ \A w \in wallets' : Cardinality({u \in users' : u.id = w.user_id}) = 1
       /\ \A u, v \in users' : u.email = v.email => u = v
       /\ \A r \in Reqs : req'[r].route = "user" =>
             /\ IF req'[r].resp.status = 201
                THEN /\ UsersOf(r)' = {[id |-> FreshId(r), email |-> req'[r].body.email]}
                     /\ Cardinality(WalletsOf(r)') = 1
                     /\ req'[r].resp.body.id = FreshId(r)
                ELSE UsersOf(r)' = {} /\ WalletsOf(r)' = {}
             /\ (/\ req[r].pc = "u_user" /\ req'[r].pc # "u_user"
                 /\ req'[r].err # "ECONNRESET"
                 /\ \E u \in users : u.email = req[r].body.email) =>
                    req'[r].pc = "u_rollback" /\ req'[r].err = "23505"
             /\ (req[r].pc = "u_rollback" /\ req[r].err = "23505" /\ req'[r].pc # "u_rollback") =>
                    /\ req'[r].resp.status = 409
                    /\ req'[r].resp.body.code = "DUPLICATE_EMAIL"
                    /\ users' = users /\ wallets' = wallets]_vars

\* One request has created a user with a new email and a second request
\* with the same email has been answered DUPLICATE_EMAIL.
C18_Witness ==
    \E p, r \in Reqs :
        /\ p # r
        /\ req[p].route = "user" /\ req[r].route = "user"
        /\ req[p].body.email = req[r].body.email
        /\ req[p].body.email \notin {SeedEmail(w) : w \in Wallets}
        /\ req[p].resp.status = 201
        /\ req[r].resp.status = 409 /\ req[r].resp.body.code = "DUPLICATE_EMAIL"
        /\ Cardinality(UsersOf(p)) = 1 /\ Cardinality(WalletsOf(p)) = 1

\* C19: every ledger entry and every Transfer row, committed or pending, has
\* an amount above zero, and every entry's direction is debit or credit; a
\* fund or transfer request with a zero or negative amount is answered 400
\* with a validation error, does not run, and writes nothing.
C19_AmountsArePositive ==
    [][/\ \A i \in 1 .. Len(ledger') :
             ledger'[i].amount > 0 /\ ledger'[i].direction \in {"debit", "credit"}
       /\ \A t \in transfers' : t.amount > 0
       /\ \A r \in Reqs :
             /\ \A t \in req'[r].txTransfers : t.amount > 0
             /\ \A i \in 1 .. Len(req'[r].txEntries) : req'[r].txEntries[i].amount > 0
             /\ (/\ req'[r].route \in {"fund", "transfer"}
                 /\ req'[r].key = NoKey
                 /\ req'[r].body.amount <= 0) =>
                    /\ req'[r].pc = "done"
                    /\ req'[r].resp.status = 400
                    /\ req'[r].resp.body.code = "VALIDATION_ERROR"
                    /\ ~req'[r].executed
                    /\ req'[r] # req[r] => ledger' = ledger /\ transfers' = transfers
                    /\ \A i \in 1 .. Len(ledger') :
                          ledger'[i].transaction_reference
                              \notin {<<"fund", r>>, <<"transfer", r>>}
                    /\ \A t \in transfers' : t.id # r]_vars

\* A funding of amount zero and a transfer of a negative amount have been
\* turned down while the ledger holds entries of other requests.
C19_Witness ==
    /\ \E r \in Reqs :
          req[r].route = "fund" /\ req[r].body.amount = 0
              /\ req[r].resp.body.code = "VALIDATION_ERROR"
    /\ \E r \in Reqs :
          req[r].route = "transfer" /\ req[r].body.amount < 0
              /\ req[r].resp.body.code = "VALIDATION_ERROR"
    /\ Len(ledger) > 0

\* The pages a caller was sent, one after the other.
RECURSIVE Concat(_)
Concat(pages) == IF pages = <<>> THEN <<>> ELSE Head(pages) \o Concat(Tail(pages))

\* C20: each page getEntries returns holds at most limit entries, all of the
\* wallet asked for, most recent first, and none when the wallet has no
\* history; and with no write under way, the pages at offsets 0, limit,
\* 2 * limit .. up to the first short page, put end to end, are the wallet's
\* history, most recent first, every entry once.
C20_GetEntriesPagesHistory ==
    client # NoClient =>
        LET w == client.walletId
            all == Concat(client.pages)
            history == {ledger[i] : i \in WalletRows(w)}
        IN  /\ \A k \in DOMAIN client.pages :
                  LET page == client.pages[k] IN
                  /\ Len(page) <= client.limit
                  /\ \A i \in DOMAIN page : page[i] \in history
                  /\ \A i, j \in DOMAIN page :
                        i < j => page[i].created_at >= page[j].created_at
                  /\ history = {} => page = <<>>
            /\ ReadingDone =>
                  /\ Len(all) = Cardinality(WalletRows(w))
                  /\ {all[i] : i \in DOMAIN all} = history
                  /\ \A i, j \in DOMAIN all : i # j => all[i] # all[j]
                  /\ \A i, j \in DOMAIN all :
                        i < j => all[i].created_at >= all[j].created_at

\* Two bodies hold the same properties with the same values; a property both
\* bodies have has different values in them.
SameProperties(a, b) == Range(a[2]) = Range(b[2])
DifferInValue(a, b) ==
    \E k \in Range(KeyNames) :
        HasProperty(a, k) /\ HasProperty(b, k) /\ Get(a, k) # Get(b, k)

\* C21: hashRequest gives a body the same fingerprint every time; two bodies
\* with the same properties and values, in whatever order, get the same
\* fingerprint; two bodies in which some property has different values get
\* different fingerprints.
C21_HashRequestCanonical ==
    hashed # NoHash =>
        /\ hashed.hl = hashRequest(hashed.left)
        /\ hashed.hr = hashRequest(hashed.right)
        /\ SameProperties(hashed.left, hashed.right) => hashed.hl = hashed.hr
        /\ DifferInValue(hashed.left, hashed.right) => hashed.hl # hashed.hr

\* C22: a transfer takes a wallet's lock only when it holds the lock of every
\* wallet of its with a smaller id (so the smaller id is locked first, the
\* larger second, whichever is the sender), and the sender's balance is read
\* only while the transfer holds the locks of both its wallets.
C22_LocksAscendingThenBalance ==
    [][\A r \in Reqs :
         LET own == {uuid(req[r].body.senderWalletId), uuid(req[r].body.receiverWalletId)} IN
         /\ \A w \in Wallets :
               (lockOwner[w] # r /\ lockOwner'[w] = r) =>
                   /\ w \in own
                   /\ \A v \in own : v < w => lockOwner[v] = r
         /\ (req[r].pc = "t_balance" /\ req'[r].pc # "t_balance") =>
               \A w \in own : lockOwner[w] = r]_vars

\* Transfer r has both its locks and has neither committed nor rolled back.
InCriticalSection(r) ==
    /\ req[r].route = "transfer"
    /\ req[r].pc \in {"t_balance", "t_ins_transfer", "t_debit", "t_credit",
                      "t_update", "t_commit"}

SharedWallets(p, r) ==
    {uuid(req[p].body.senderWalletId), uuid(req[p].body.receiverWalletId)}
        \cap {uuid(req[r].body.senderWalletId), uuid(req[r].body.receiverWalletId)}

MutuallyExclusive ==
    \A p, r \in Reqs :
        (p # r /\ InCriticalSection(p) /\ InCriticalSection(r)) => SharedWallets(p, r) = {}

\* The committed debits on wallet w that the snapshot of transaction q lacks.
MissedDebits(q, w) ==
    {i \in (q.snap + 1) .. Len(ledger) :
        ledger[i].wallet_id = w /\ ledger[i].direction = "debit"}

\* C23: two transfers that name a common wallet are never both between
\* having their locks and their commit or rollback; and when a transfer
\* reads its sender's balance, every debit committed on that wallet is among
\* the rows it reads.
C23_SharedWalletTransfersExclusive ==
    [][/\ MutuallyExclusive
       /\ \A r \in Reqs :
             (/\ req[r].pc = "t_balance" /\ req'[r].pc # "t_balance"
              /\ req'[r].err # "ECONNRESET") =>
                 MissedDebits(req[r], uuid(req[r].body.senderWalletId)) = {}]_vars

\* The rows that committed transfers wrote for wallet w and the snapshot of
\* transaction q lacks.
MissedTransferEntries(q, w) ==
    {i \in (q.snap + 1) .. Len(ledger) :
        ledger[i].wallet_id = w /\ ledger[i].transfer_id # 0}

\* What funding requests have added to wallet w since the snapshot of q.
FundedSince(q, w) ==
    BalanceQuery(SelectSeq(SubSeq(ledger, q.snap + 1, Len(ledger)),
                           LAMBDA e : e.transfer_id = 0), w)

\* C24: a transfer gets a wallet's lock only when no other holds it, and a
\* holder gives it up only by committing or rolling back; the balance the
\* later transfer then reads has every entry that committed transfers wrote
\* for its sender, it goes on exactly when the sender's balance with those
\* entries covers the amount and fails with InsufficientBalance otherwise,
\* and once past the check only a storage error makes it fail.
C24_LoserSeesWinnersEffect ==
    [][\A r \in Reqs :
         LET sender == uuid(req[r].body.senderWalletId) IN
         /\ \A w \in Wallets :
               /\ (lockOwner[w] # r /\ lockOwner'[w] = r) => lockOwner[w] = 0
               /\ (lockOwner[w] = r /\ lockOwner'[w] # r) =>
                     /\ lockOwner'[w] = 0
                     /\ req[r].pc \in {"t_commit", "t_rollback"}
                     /\ req'[r].pc = "done"
         /\ (/\ req[r].pc = "t_balance" /\ req'[r].pc # "t_balance"
             /\ req'[r].err # "ECONNRESET") =>
                /\ MissedTransferEntries(req[r], sender) = {}
                /\ IF getBalance(sender) - FundedSince(req[r], sender) >= req[r].body.amount
                   THEN req'[r].pc = "t_ins_transfer"
                   ELSE req'[r].pc = "t_rollback" /\ req'[r].err = "INSUFFICIENT_BALANCE"
         /\ (/\ req[r].pc \in {"t_ins_transfer", "t_debit", "t_credit", "t_update", "t_commit"}
             /\ req'[r].pc = "t_rollback") => req'[r].err = "ECONNRESET"]_vars

\* The next step of transfer r, whichever it is.
TransferStep(r) ==
    \/ TransferBegin(r)
    \/ LockFirst(r)
    \/ LockSecond(r)
    \/ CheckBalance(r)
    \/ InsertTransfer(r)
    \/ InsertDebit(r)
    \/ InsertCredit(r)
    \/ UpdateStatus(r)
    \/ Commit(r)
    \/ Rollback(r)

Running(r) == req[r].route = "transfer" /\ req[r].pc \notin {"idle", "done"}

\* C25: a running transfer can take its next step whenever no other running
\* transfer names a wallet of its, wherever the transfers over other wallets
\* stand.
C25_DisjointTransfersDoNotBlock ==
    \A r \in Reqs :
        (/\ Running(r)
         /\ \A p \in Reqs \ {r} : Running(p) => SharedWallets(p, r) = {}) =>
            ENABLED TransferStep(r)

\* Two transfers over different pairs of wallets held their locks at once:
\* one has committed while the other, which holds both its locks and has
\* passed its balance check, has not.
C25_Witness ==
    \E p, r \in Reqs :
        /\ p # r
        /\ req[p].route = "transfer" /\ req[r].route = "transfer"
        /\ SharedWallets(p, r) = {}
        /\ req[p].pc = "t_commit"
        /\ \A w \in {req[p].body.senderWalletId, req[p].body.receiverWalletId} :
              lockOwner[w] = p
        /\ req[r].resp.status = 201
        /\ req[r].startedAt = req[p].startedAt
        /\ \E i \in 1 .. Len(ledger) : ledger[i].transfer_id = r

\* The call of storeKey that request r has pending.
StoreKeyOf(r) ==
    storeKey(idem, req[r].key, hashRequest(BodyObject(req[r].route, req[r].body)),
             req[r].resp.status, req[r].resp.body)

\* C26: the table has one row per key at most (idem is a function of the
\* key); a storeKey for a key that has a row, expired or not, leaves the four
\* columns of that row as they are, throws IdempotencyKeyConflict when the
\* row's hash is not the caller's and returns the row otherwise; for a key
\* without a row it writes the caller's; and no request's storeKey step
\* changes a row that exists.
C26_StoreKeyFirstWriterWins ==
    [][\A r \in Reqs :
         req[r].pc = "store" =>
            LET k == req[r].key
                h == hashRequest(BodyObject(req[r].route, req[r].body))
                res == StoreKeyOf(r)
            IN  /\ idem[k] # NoRow =>
                      /\ res.rows = idem
                      /\ res.conflict <=> idem[k].request_hash # h
                      /\ ~res.conflict => res.storedKey = idem[k]
                /\ idem[k] = NoRow =>
                      /\ ~res.conflict
                      /\ res.storedKey.request_hash = h
                      /\ res.storedKey.response_status = req[r].resp.status
                      /\ \A j \in IdempotencyKeys \ {k} : res.rows[j] = idem[j]
                /\ req'[r].pc # "store" =>
                      /\ idem' \in {idem, res.rows}
                      /\ \A j \in IdempotencyKeys : idem[j] # NoRow => idem'[j] = idem[j]]_vars

\* Two requests under one key with different bodies have both run and both
\* finished their storeKey; the row is the one of the first and the later
\* call has left it alone.
C26_Witness ==
    \E p, r \in Reqs :
        /\ p # r /\ req[p].key = req[r].key /\ req[p].key \in IdempotencyKeys
        /\ req[p].pc = "done" /\ req[r].pc = "done"
        /\ req[p].executed /\ req[r].executed
        /\ idem[req[p].key] # NoRow
        /\ idem[req[p].key].request_hash = hashRequest(BodyObject(req[p].route, req[p].body))
        /\ idem[req[p].key].request_hash # hashRequest(BodyObject(req[r].route, req[r].body))
        /\ idem[req[p].key].response_status = req[p].resp.status
        /\ JSONParse(idem[req[p].key].response_body) = req[p].resp.body
        /\ JSONParse(idem[req[p].key].response_body) # req[r].resp.body

\* Key k has a row whose expiry has not passed.
Live(k) == idem[k] # NoRow /\ idem[k].expires_at > now

\* C27: the gate's lookup of request r finds none when its key has no row
\* that has not expired, and r goes on to run its operation; with such a row
\* of an equal hash r is answered with the row's status and body as stored,
\* without running; with such a row of another hash r is answered with
\* IdempotencyKeyConflict, without running; and the lookup leaves the
\* idempotency store, the ledger and the transfers as they are.
C27_CheckAndGetResponse ==
    [][\A r \in Reqs :
         (req[r].pc = "gate" /\ req'[r].pc # "gate") =>
            LET k == req[r].key
                h == hashRequest(BodyObject(req[r].route, req[r].body))
            IN  /\ idem' = idem /\ ledger' = ledger /\ transfers' = transfers
                /\ ~Live(k) =>
                      /\ checkAndGetResponse(k, h) = "miss"
                      /\ req'[r] = Enter(req[r])
                /\ (Live(k) /\ idem[k].request_hash = h) =>
                      /\ checkAndGetResponse(k, h) = "hit"
                      /\ req'[r].pc = "done" /\ ~req'[r].executed
                      /\ req'[r].resp.status = idem[k].response_status
                      /\ JSONStringify(req'[r].resp.body) = idem[k].response_body
                /\ (Live(k) /\ idem[k].request_hash # h) =>
                      /\ checkAndGetResponse(k, h) = "conflict"
                      /\ req'[r].pc = "done" /\ ~req'[r].executed
                      /\ req'[r].resp = ErrorResponse("IDEMPOTENCY_KEY_CONFLICT")]_vars

\* A request was answered from the row of its key without running; the row
\* has since expired, and a later request under the key has passed the gate
\* and is running its operation.
C27_Witness ==
    \E p, r \in Reqs :
        /\ req[p].key \in IdempotencyKeys /\ req[r].key = req[p].key
        /\ req[p].pc = "done" /\ ~req[p].executed /\ req[p].resp.status = 201
        /\ JSONStringify(req[p].resp.body) = idem[req[p].key].response_body
        /\ req[r].executed /\ req[r].pc \notin {"done", "store"}
        /\ idem[req[r].key] # NoRow /\ ~Live(req[r].key)

\* C28: a request under a key whose row has expired, deleted or not, passes
\* the gate as one under a key never used and runs its operation; and the
\* storeKey of its response leaves the key with a row of the request's hash,
\* its response and an expiry of ttlHours from now, which a retry would be
\* answered from.
C28_ExpiredRowIsAbsent ==
    [][\A r \in Reqs :
         LET k == req[r].key
             h == hashRequest(BodyObject(req[r].route, req[r].body))
         IN  /\ (req[r].pc = "gate" /\ req'[r].pc # "gate" /\ ~Live(k)) =>
                   req'[r] = Enter(req[r])
             /\ (req[r].pc = "store" /\ ~Live(k)) =>
                   LET res == StoreKeyOf(r) IN
                   /\ ~res.conflict
                   /\ res.rows[k].request_hash = h
                   /\ res.rows[k].response_status = req[r].resp.status
                   /\ res.rows[k].response_body = JSONStringify(req[r].resp.body)
                   /\ res.rows[k].expires_at = now + ttlHours]_vars

\* C29: whatever becomes of the storeKey of request r, a storage error and a
\* key conflict included, r's response stays the one its operation produced,
\* and the step that ends the storeKey leaves the ledger and the transfers
\* as they are and r finished: what r committed is neither undone nor done
\* again.
C29_StoreFailureKeepsResponse ==
    [][\A r \in Reqs :
         req[r].pc = "store" =>
            /\ req'[r].resp = req[r].resp
            /\ req'[r].executed = req[r].executed
            /\ req'[r].pc \in {"store", "done"}
            /\ req'[r].pc = "done" =>
                  /\ ledger' = ledger /\ transfers' = transfers
                  /\ EffectOf(r)' = EffectOf(r)
                  /\ idem' \in {idem, StoreKeyOf(r).rows}]_vars

\* A failure has occurred and the response stands: a funding answered
\* 201 has its credit in the ledger though its storeKey met a storage error
\* (no row at a time when none can have expired), or met the row of a
\* request of another body (a key conflict).
C29_Witness ==
    \E r \in Reqs :
        /\ req[r].key \in IdempotencyKeys
        /\ req[r].pc = "done" /\ req[r].executed
        /\ req[r].route = "fund" /\ req[r].resp.status = 201
        /\ EffectOf(r) # {}
        /\ \/ idem[req[r].key] = NoRow /\ now = 0
           \/ /\ idem[req[r].key] # NoRow
              /\ idem[req[r].key].request_hash
                    # hashRequest(BodyObject(req[r].route, req[r].body))

\* The keys whose row a step has removed.
Deleted == {k \in DOMAIN idem : idem[k] # NoRow /\ idem'[k] = NoRow}

\* C30: a run of cleanupExpiredKeys removes the rows whose expiry has
\* passed, all of them and no other, and returns how many they were; it
\* leaves the other rows, the ledger and the transfers as they are; a second
\* run at the same time finds nothing to delete and returns 0; and no step of
\* the service, the cleanup included, removes or changes a row whose expiry
\* has not passed, so a replay owed to such a row is not lost.
C30_CleanupDeletesExpiredOnly ==
    [][/\ Deleted # {} =>
             /\ Deleted = {k \in DOMAIN idem : idem[k] # NoRow /\ idem[k].expires_at <= now}
             /\ deletedCount(idem) = Cardinality(Deleted)
             /\ \A k \in DOMAIN idem \ Deleted : idem'[k] = idem[k]
             /\ ledger' = ledger /\ transfers' = transfers /\ req' = req
             /\ deletedCount(idem)' = 0
             /\ DeleteExpired(idem)' = idem'
       /\ \A k \in DOMAIN idem :
             (idem[k] # NoRow /\ idem[k].expires_at > now /\ now' = now) =>
                 idem'[k] = idem[k]]_vars

\* The cleanup has removed the expired row of one key, from which a request
\* had been answered, and left the live row of the other.
C30_Witness ==
    \E k, j \in DOMAIN idem : \E p, r \in Reqs :
        /\ k # j
        /\ idem[k] = NoRow
        /\ req[p].key = k /\ req[p].pc = "done" /\ ~req[p].executed
        /\ req[p].resp.status = 201
        /\ idem[j] # NoRow /\ idem[j].expires_at > now
        /\ req[r].key = j /\ req[r].pc = "done" /\ req[r].executed
        /\ idem[j].request_hash = hashRequest(BodyObject(req[r].route, req[r].body))

\* The errors of a storage failure that a retry can get past.
Transient == {"ECONNRESET", "40001", "40P01"}

\* C31: a keyed transfer that a transient storage failure ends commits
\* nothing of its own, and its caller is answered with the error, the
\* transfer not being run again for it; and a later request under the same
\* key with the same body, arriving after that answer, passes the gate and
\* runs the transfer instead of being answered with the failure.
C31_TransientFailureIsRetriable ==
    [][\A r \in Reqs :
         /\ (/\ req[r].route = "transfer" /\ req[r].key # NoKey
             /\ req[r].pc = "t_rollback" /\ req'[r].pc # "t_rollback"
             /\ req[r].err \in Transient) =>
                /\ ledger' = ledger /\ transfers' = transfers
                /\ EffectOf(r) = {} /\ getTransfer(r) = {}
                /\ req'[r].resp = ErrorResponse(req[r].err)
                /\ req'[r].resp.status = 500
                /\ req'[r].pc = "store"
         /\ (/\ req[r].route = "transfer"
             /\ req[r].pc = "gate" /\ req'[r].pc # "gate"
             /\ req[r].before # {}
             /\ \A p \in req[r].before : req[p].resp.status = 500) =>
                /\ req'[r].executed
                /\ req'[r].pc = "t_begin"]_vars

\* C32: a fund or transfer request whose body fails validation (an amount
\* of zero or below, sender equal to receiver), with an Idempotency-Key or
\* without, is answered 400 with a validation error without running, and no
\* step of it writes a ledger entry, a Transfer row or an idempotency row.
C32_ValidationBeforeSideEffects ==
    [][\A r \in Reqs :
         (/\ req'[r].route \in {"fund", "transfer"}
          /\ req'[r].key \in IdempotencyKeys \cup {NoKey}
          /\ ~Validate(req'[r].route, req'[r].body)) =>
             /\ ~req'[r].executed
             /\ req'[r].resp # NoResp =>
                   \/ req'[r].resp = ErrorResponse("VALIDATION_ERROR")
                   \/ req'[r].resp = ErrorResponse("IDEMPOTENCY_KEY_CONFLICT")
             /\ req'[r] # req[r] =>
                   ledger' = ledger /\ transfers' = transfers /\ idem' = idem
             /\ EffectOf(r)' = {} /\ getTransfer(r)' = {}]_vars

\* The step by which funding request r is answered.
FundAnswered(r) == req[r].route = "fund" /\ req[r].executed /\ ~HasResponse(r) /\ req'[r].resp # NoResp

OperationErrors == {"INSUFFICIENT_BALANCE", "WALLET_NOT_FOUND", "DUPLICATE_PAYMENT_REF"}

\* C34: once a keyed request has been answered InsufficientBalance,
\* WalletNotFound or DuplicatePaymentRef, a later request with the same key
\* and body (before the key expires) gets that same error response and does
\* not run the operation, whatever has happened to the ledger in between.
C34_ErrorResponseIsReplayed ==
    \A r \in Reqs :
        (/\ NothingExpired /\ HasResponse(r)
         /\ \E p \in req[r].before :
               /\ req[p].executed
               /\ req[p].resp.body.code \in OperationErrors) =>
            /\ ~req[r].executed
            /\ EffectOf(r) = {}
            /\ \A p \in req[r].before : req[r].resp = req[p].resp

RECURSIVE TotalBalance(_)
TotalBalance(W) ==
    IF W = {} THEN 0
    ELSE LET w == CHOOSE v \in W : TRUE IN getBalance(w) + TotalBalance(W \ {w})

\* The credits fundWallet wrote: they carry a fund_ transaction reference, an
\* external payment reference and no transfer id.
FundingCredits ==
    {i \in 1 .. Len(ledger) :
        /\ ledger[i].direction = "credit"
        /\ ledger[i].transaction_reference[1] = "fund"}

\* C35: in every reachable state the derived balances of all wallets sum to
\* the sum of the amounts of the funding credits; a step that appends the
\* entries of a transfer moves balances and leaves their total as it was.
C35_MoneyIsConserved ==
    /\ TotalBalance(Ids) = SumOfEntries(FundingCredits)
    /\ \A i \in 1 .. Len(ledger) : ledger[i].wallet_id \in Ids
    /\ \A i \in FundingCredits :
          ledger[i].transfer_id = 0 /\ ledger[i].external_payment_ref # "null"

\* Money has been funded and a transfer has moved some of it: the receiver
\* holds what the transfer brought, and the total is the funded amount.
C35_Witness ==
    /\ \E t \in transfers :
          /\ t.sender_wallet_id # t.receiver_wallet_id
          /\ getBalance(t.receiver_wallet_id) = t.amount
          /\ getBalance(t.sender_wallet_id) = 0
          /\ EntriesOf(t.sender_wallet_id, "debit") # {}
    /\ FundingCredits # {}
    /\ TotalBalance(Ids) > 0

\* Transfer r holds no row lock and has no transaction open.
Released(r) ==
    /\ \A w \in DOMAIN lockOwner : lockOwner[w] # r
    /\ req[r].txEntries = <<>> /\ req[r].txTransfers = {}

\* C36: every call of TransferService.transfer ends, by one COMMIT or one
\* ROLLBACK and never both, after which it holds no wallet lock; and a
\* transfer that waits for a wallet lock does not wait for ever, and stops
\* waiting only by taking the lock, unless a storage error ends it first.
C36_TransferTerminatesAndReleases ==
    /\ [](\A r \in Reqs :
            (req[r].route = "transfer" /\ HasResponse(r)) => Released(r))
    /\ [][\A r \in Reqs :
            (req[r].route = "transfer" /\ req[r].executed
             /\ ~HasResponse(r) /\ req'[r].resp # NoResp) =>
               /\ req[r].pc \in {"t_commit", "t_rollback"}
               /\ (req[r].pc = "t_commit") <=> (req'[r].resp.status = 201)
               /\ Released(r)']_vars
    /\ [][\A r \in Reqs : \A w \in Wallets :
            (Waiting(r, w) /\ req'[r].pc # req[r].pc) =>
               \/ lockOwner'[w] = r
               \/ req'[r].err = "ECONNRESET"]_vars
    /\ \A r \in Reqs : (req[r].pc \in {"t_lock1", "t_lock2"}) ~> HasResponse(r)

\* The balance the check of transfer r computes for the sender.
CheckedBalance(r) == BalanceQuery(Visible(req[r]), uuid(req[r].body.senderWalletId))

StoredKeys == {k \in DOMAIN idem : idem[k] # NoRow}

\* C38: at every instant each stored row is returned by getKey, and so
\* replayable, or selected by the DELETE of cleanupExpiredKeys, and never
\* both or neither; a row gets expires_at = its storage time + ttlHours when
\* it is inserted, and no step changes the expires_at of a row that stays.
C38_ReplayableOrDeletable ==
    /\ [](\A k \in StoredKeys :
            /\ (getKey(k) # {}) # (k \in ExpiredKeys(idem))
            /\ (getKey(k) # {}) <=> (idem[k].expires_at > now)
            /\ (k \in ExpiredKeys(idem)) <=> (idem[k].expires_at <= now))
    /\ [](\A k \in DOMAIN idem \ StoredKeys :
            getKey(k) = {} /\ k \notin ExpiredKeys(idem))
    /\ [][\A k \in DOMAIN idem :
            /\ (idem[k] = NoRow /\ idem'[k] # NoRow) =>
                  idem'[k].expires_at = now + ttlHours
            /\ (idem[k] # NoRow /\ idem'[k] # NoRow) =>
                  idem'[k].expires_at = idem[k].expires_at]_vars

\* Two rows at one instant: one has expired and only cleanup selects it,
\* though a request has since tried to store under its key; the other was
\* stored later and only getKey returns it.
C38_Witness ==
    \E k, l \in StoredKeys :
        /\ k \in ExpiredKeys(idem) /\ getKey(k) = {}
        /\ getKey(l) # {} /\ l \notin ExpiredKeys(idem)
        /\ idem[k].expires_at < idem[l].expires_at
        /\ \E r \in Reqs :
              /\ req[r].key = k /\ req[r].pc = "done" /\ req[r].executed
              /\ req[r].before # {}

====
